---------------------------- MODULE Spec2Model ----------------------------
(***************************************************************************)
(* Model of country-info-service: the three HTTP handlers (info,           *)
(* population, status), the upstream fetch functions they call and the     *)
(* string / JSON helpers these rely on.                                     *)
(*                                                                         *)
(* Go strings are TLA+ strings, handled character by character with Len,   *)
(* SubSeq and \o.  A JSON value decoded into interface{} is a tagged       *)
(* record (JStr, JNum, JNull, JArr, JObj); a JSON object is a function     *)
(* from its keys to JSON values.  One request is handled at a time; pc is  *)
(* the handler's position, which only rests at the blocking upstream calls.*)
(***************************************************************************)
EXTENDS Integers, Sequences, FiniteSets, TLC

(***************************************************************************)
(* Bounds of the model.                                                    *)
(***************************************************************************)
MaxHist == 3        \* longest upstream population history
MaxCities == 11     \* longest upstream city list (one more than DefaultLimit)
MaxTime == 1        \* seconds the clock may advance after process start
MaxParked == 1      \* handler goroutines beside the running one

(***************************************************************************)
(* Program constants.                                                      *)
(***************************************************************************)
DefaultLimit == 10  \* part_000:50
MinYear == 1900     \* fetch_country.go:280
StatusOK == 200     \* http.StatusOK

\* what time.Now().Year() returns at fetch_country.go:278
CurrentYear == 2026

(***************************************************************************)
(* strings, strconv, regexp, fmt                                           *)
(***************************************************************************)
Char(s, i) == SubSeq(s, i, i)

LowerLetters == "abcdefghijklmnopqrstuvwxyz"
UpperLetters == "ABCDEFGHIJKLMNOPQRSTUVWXYZ"
Digits == "0123456789"

\* 0 when ch does not occur in alphabet, else its 1-based position
IndexIn(ch, alphabet) ==
    IF \E i \in 1..Len(alphabet) : Char(alphabet, i) = ch
    THEN CHOOSE i \in 1..Len(alphabet) : Char(alphabet, i) = ch
    ELSE 0

UpperChar(ch) ==
    IF IndexIn(ch, LowerLetters) > 0
    THEN Char(UpperLetters, IndexIn(ch, LowerLetters))
    ELSE ch

\* strings.ToUpper on ASCII text (the requests of this model hold no other)
RECURSIVE ToUpper(_)
ToUpper(s) ==
    IF Len(s) = 0 THEN ""
    ELSE UpperChar(Char(s, 1)) \o ToUpper(SubSeq(s, 2, Len(s)))

HasPrefix(s, prefix) ==
    Len(s) >= Len(prefix) /\ SubSeq(s, 1, Len(prefix)) = prefix

TrimPrefix(s, prefix) ==
    IF HasPrefix(s, prefix) THEN SubSeq(s, Len(prefix) + 1, Len(s)) ELSE s

Contains(s, substr) ==
    \E i \in 1..(Len(s) - Len(substr) + 1) :
        SubSeq(s, i, i + Len(substr) - 1) = substr

\* strings.Split with a non-empty separator
RECURSIVE Split(_, _)
Split(s, sep) ==
    IF ~Contains(s, sep) THEN <<s>>
    ELSE LET i == CHOOSE k \in 1..(Len(s) - Len(sep) + 1) :
                    /\ SubSeq(s, k, k + Len(sep) - 1) = sep
                    /\ \A j \in 1..(k - 1) : SubSeq(s, j, j + Len(sep) - 1) # sep
         IN  <<SubSeq(s, 1, i - 1)>> \o Split(SubSeq(s, i + Len(sep), Len(s)), sep)

IsDigits(s) ==
    Len(s) > 0 /\ \A i \in 1..Len(s) : IndexIn(Char(s, i), Digits) > 0

RECURSIVE DigitsValue(_)
DigitsValue(s) ==
    IF Len(s) = 0 THEN 0
    ELSE 10 * DigitsValue(SubSeq(s, 1, Len(s) - 1))
         + (IndexIn(Char(s, Len(s)), Digits) - 1)

\* strconv.Atoi: an optional sign, then decimal digits; anything else is an error
Atoi(s) ==
    LET signed == Len(s) > 0 /\ Char(s, 1) \in {"+", "-"}
        digits == IF signed THEN SubSeq(s, 2, Len(s)) ELSE s
    IN  IF ~IsDigits(digits) THEN [err |-> TRUE, v |-> 0]
        ELSE [err |-> FALSE,
              v |-> IF signed /\ Char(s, 1) = "-"
                    THEN 0 - DigitsValue(digits) ELSE DigitsValue(digits)]

\* fmt's %d
RECURSIVE Itoa(_)
Itoa(n) ==
    IF n < 0 THEN "-" \o Itoa(0 - n)
    ELSE IF n < 10 THEN Char(Digits, n + 1)
    ELSE Itoa(n \div 10) \o Char(Digits, (n % 10) + 1)

\* a pattern that only counts the characters, ^.{2}$
MatchTwoChars(code) == Len(code) = 2

\* regexp.MatchString("^[A-Z]{2}$", code)
MatchISO2(code) ==
    /\ Len(code) = 2
    /\ \A i \in 1..2 : IndexIn(Char(code, i), UpperLetters) > 0

\* Go's integer division truncates toward zero
GoDiv(a, b) ==
    IF (a >= 0) = (b >= 0)
    THEN (IF a >= 0 THEN a ELSE 0 - a) \div (IF b >= 0 THEN b ELSE 0 - b)
    ELSE 0 - ((IF a >= 0 THEN a ELSE 0 - a) \div (IF b >= 0 THEN b ELSE 0 - b))

\* http.StatusText
StatusText(code) ==
    CASE code = 200 -> "OK"
      [] code = 404 -> "Not Found"
      [] code = 500 -> "Internal Server Error"
      [] code = 503 -> "Service Unavailable"
      [] OTHER -> ""

(***************************************************************************)
(* JSON values                                                             *)
(***************************************************************************)
JStr(s) == [t |-> "string", s |-> s]
JNum(n) == [t |-> "number", n |-> n]    \* a float64 holding the integer n
JArr(a) == [t |-> "array", a |-> a]
JObj(o) == [t |-> "object", o |-> o]
JNull == [t |-> "null"]
NoJSON == [t |-> "garbage"]     \* a body that is not JSON


\* the value under key k of a decoded object; absent keys read as Go's nil
Absent == [t |-> "absent"]
Get(o, k) == IF k \in DOMAIN o THEN o[k] ELSE Absent

With(o, k, v) == [x \in (DOMAIN o) \cup {k} |-> IF x = k THEN v ELSE o[x]]
Without(o, k) == [x \in (DOMAIN o) \ {k} |-> o[x]]

(***************************************************************************)
(* Upstream replies.  A reply is a transport failure (fail), or an HTTP    *)
(* status with a body.                                                     *)
(***************************************************************************)
TransportFailure == [fail |-> TRUE, status |-> 0, body |-> NoJSON]
Reply(status, body) == [fail |-> FALSE, status |-> status, body |-> body]

\* text of the error http.Get / client.Do return on a transport failure
TransportErr(method, url) ==
    method \o " \"" \o url \o "\": dial tcp: connect: connection refused"

Ok(v) == [failed |-> FALSE, msg |-> "", v |-> v]
Err(msg) == [failed |-> TRUE, msg |-> msg, v |-> <<>>]

(***************************************************************************)
(* utils: extractString, extractStringArray (fetch_country.go)             *)
(***************************************************************************)
\* the inner loop of extractString: the first of keys[j..] that is a string
\* in nestedMap
RECURSIVE nestedString(_, _, _)
nestedString(nestedMap, keys, j) ==
    IF j > Len(keys) THEN [s |-> "", ok |-> FALSE]
    ELSE IF Get(nestedMap, keys[j]).t = "string"
         THEN [s |-> Get(nestedMap, keys[j]).s, ok |-> TRUE]
         ELSE nestedString(nestedMap, keys, j + 1)

RECURSIVE extractStringFrom(_, _, _)
extractStringFrom(data, keys, i) ==
    IF i > Len(keys) THEN [s |-> "", ok |-> FALSE]
    ELSE LET value == Get(data, keys[i])
         IN  IF value.t = "object"
             THEN IF nestedString(value.o, keys, 1).ok
                  THEN nestedString(value.o, keys, 1)
                  ELSE extractStringFrom(data, keys, i + 1)
             ELSE IF value.t = "string"
                  THEN [s |-> value.s, ok |-> TRUE]
                  ELSE extractStringFrom(data, keys, i + 1)

extractString(data, keys) == extractStringFrom(data, keys, 1)

RECURSIVE stringItems(_)
stringItems(arr) ==
    IF Len(arr) = 0 THEN <<>>
    ELSE (IF Head(arr).t = "string" THEN <<Head(arr).s>> ELSE <<>>)
         \o stringItems(Tail(arr))

extractStringArray(data, key) ==
    IF Get(data, key).t = "array" THEN stringItems(Get(data, key).a) ELSE <<>>

(***************************************************************************)
(* utils.FetchCities                                                       *)
(***************************************************************************)
CitiesURL == "http://129.241.150.113:3500/api/v0.1/countries/cities"
CitiesPayload(countryName) == "{\"country\": \"" \o countryName \o "\"}"

\* the decoded body of the cities upstream: {error, data}
CitiesBody(error, data) == [t |-> "cities", error |-> error, data |-> data]

\* FetchCities without lines 173-176: the limit is never applied
FetchCitiesUntruncated(reply, countryName, limit) ==
    IF reply.fail
    THEN Err("failed to fetch cities: " \o TransportErr("Post", CitiesURL))
    ELSE IF reply.status # StatusOK
    THEN Err("cities API returned status " \o Itoa(reply.status))
    ELSE IF reply.body.t # "cities"
    THEN Err("failed to parse cities API response: invalid character")
    ELSE IF reply.body.error
    THEN Err("error fetching cities for country: " \o countryName)
    ELSE Ok(reply.body.data)

FetchCities(reply, countryName, limit) ==
    IF reply.fail
    THEN Err("failed to fetch cities: " \o TransportErr("Post", CitiesURL))
    ELSE IF reply.status # StatusOK
    THEN Err("cities API returned status " \o Itoa(reply.status))
    ELSE IF reply.body.t # "cities"
    THEN Err("failed to parse cities API response: invalid character")
    ELSE IF reply.body.error
    THEN Err("error fetching cities for country: " \o countryName)
    ELSE IF Len(reply.body.data) > limit
    THEN Ok(SubSeq(reply.body.data, 1, limit))
    ELSE Ok(reply.body.data)

(***************************************************************************)
(* utils.FetchCountryInfo                                                  *)
(***************************************************************************)
AlphaURL(countryCode) == "http://129.241.150.113:8080/v3.1/alpha/" \o countryCode

\* json.Decode into []map[string]interface{}: an array (or null) whose
\* elements are objects (or null, a nil map)
decodeCountries(body) ==
    IF body.t = "null" THEN Ok(<<>>)
    ELSE IF body.t = "array"
            /\ \A i \in 1..Len(body.a) : body.a[i].t \in {"object", "null"}
    THEN Ok([i \in 1..Len(body.a) |->
                IF body.a[i].t = "object" THEN body.a[i].o ELSE <<>>])
    ELSE Err("failed to decode country API response: cannot unmarshal")

\* lines 64-98: every field but the name and the cities
countryFields(country) ==
    [Continent  |-> IF Get(country, "region").t = "string"
                    THEN Get(country, "region").s ELSE "Unknown",
     Borders    |-> extractStringArray(country, "borders"),
     Languages  |-> IF Get(country, "languages").t = "object"
                    THEN LET langs == Get(country, "languages").o
                         IN  [abbr \in {k \in DOMAIN langs : langs[k].t = "string"}
                                |-> langs[abbr].s]
                    ELSE <<>>,
     Flag       |-> extractString(country, <<"flags", "svg">>).s,
     Capital    |-> IF /\ Get(country, "capital").t = "array"
                       /\ Len(Get(country, "capital").a) > 0
                       /\ Get(country, "capital").a[1].t = "string"
                    THEN Get(country, "capital").a[1].s ELSE "N/A",
     Population |-> IF Get(country, "population").t = "number"
                    THEN Get(country, "population").n ELSE 0]

\* lines 26-98: from the metadata reply to the extracted record, or the error
\* FetchCountryInfo returns before it fetches the cities
FetchCountryInfoMeta(reply, countryCode) ==
    IF reply.fail
    THEN Err("failed to fetch country data: " \o TransportErr("Get", AlphaURL(countryCode)))
    ELSE IF reply.status # StatusOK
    THEN Err("API returned status " \o Itoa(reply.status))
    ELSE IF decodeCountries(reply.body).failed
    THEN decodeCountries(reply.body)
    ELSE IF Len(decodeCountries(reply.body).v) = 0
    THEN Err("no data found for country code: " \o countryCode)
    ELSE LET country == decodeCountries(reply.body).v[1]
         IN  IF ~extractString(country, <<"name", "common">>).ok
             THEN Err("country name not found")
             ELSE Ok([Name |-> extractString(country, <<"name", "common">>).s]
                     @@ countryFields(country))

\* lines 100-119: the cities, or the placeholder, joined to the record
FetchCountryInfoCities(fields, reply, limit) ==
    LET cities == FetchCities(reply, fields.Name, limit)
    IN  [Cities |-> IF cities.failed THEN <<"City data not available">> ELSE cities.v]
        @@ fields

(***************************************************************************)
(* handlers: how both data handlers map an error text to an HTTP status    *)
(***************************************************************************)
StatusBadRequest == 400
StatusNotFound == 404
StatusInternalServerError == 500
StatusBadGateway == 502

errorStatus(msg) ==
    IF Contains(msg, "not found") THEN StatusNotFound
    ELSE IF Contains(msg, "API request failed") THEN StatusBadGateway
    ELSE StatusInternalServerError

(***************************************************************************)
(* utils.FetchCountryName, utils.FetchPopulationData                       *)
(***************************************************************************)
PopulationURL == "http://129.241.150.113:3500/api/v0.1/countries/population"

\* the decoded body of the population upstream (ApiResponse); hasCounts is
\* FALSE when data.populationCounts is missing or null (a nil slice)
PopBody(error, msg, hasCounts, counts) ==
    [t |-> "population", error |-> error, msg |-> msg,
     hasCounts |-> hasCounts, counts |-> counts]

\* json.Unmarshal into CountryNameResponse: null and missing members leave
\* the zero value, a member of another type is an UnmarshalTypeError
commonOf(element) ==
    IF element.t = "null" THEN Ok("")
    ELSE IF element.t # "object" THEN Err("cannot unmarshal")
    ELSE LET name == Get(element.o, "name")
         IN  IF name.t \in {"absent", "null"} THEN Ok("")
             ELSE IF name.t # "object" THEN Err("cannot unmarshal")
             ELSE LET common == Get(name.o, "common")
                  IN  IF common.t \in {"absent", "null"} THEN Ok("")
                      ELSE IF common.t = "string" THEN Ok(common.s)
                      ELSE Err("cannot unmarshal")

decodeCountryName(body) ==
    IF body.t = "null" THEN Ok(<<>>)
    ELSE IF body.t = "array" /\ \A i \in 1..Len(body.a) : ~commonOf(body.a[i]).failed
    THEN Ok([i \in 1..Len(body.a) |-> commonOf(body.a[i]).v])
    ELSE Err("failed to decode country API response: cannot unmarshal")

FetchCountryName(reply, iso2) ==
    IF reply.fail
    THEN Err("failed to fetch country name: " \o TransportErr("Get", AlphaURL(iso2)))
    ELSE IF reply.status # StatusOK
    THEN Err("country API returned status " \o Itoa(reply.status))
    ELSE IF decodeCountryName(reply.body).failed
    THEN decodeCountryName(reply.body)
    ELSE IF Len(decodeCountryName(reply.body).v) = 0
            \/ decodeCountryName(reply.body).v[1] = ""
    THEN Err("invalid country name received for ISO2 code: " \o iso2)
    ELSE Ok(decodeCountryName(reply.body).v[1])

\* README.md:215-218, the check FetchPopulationData makes before any call
invalidYearRange(startYear, endYear) == startYear > endYear /\ endYear # 0

yearRangeErr(startYear, endYear) ==
    Err("invalid year range: startYear (" \o Itoa(startYear)
        \o ") cannot be greater than endYear (" \o Itoa(endYear) \o ")")

\* inRange with the end of the window excluded
inRangeEndExclusive(year, startYear, endYear) ==
    (startYear = 0 \/ year >= startYear) /\ (endYear = 0 \/ year < endYear)

\* README.md:289, the condition of the filter loop
inRange(year, startYear, endYear) ==
    (startYear = 0 \/ year >= startYear) /\ (endYear = 0 \/ year <= endYear)

\* README.md:283-294, the filter loop from entry i on:
\* filteredCounts, total and count
RECURSIVE filterFrom(_, _, _, _, _)
filterFrom(populationData, i, startYear, endYear, acc) ==
    IF i > Len(populationData) THEN acc
    ELSE LET entry == populationData[i]
         IN  filterFrom(populationData, i + 1, startYear, endYear,
                IF inRange(entry.Year, startYear, endYear)
                THEN [filteredCounts |-> Append(acc.filteredCounts, entry),
                      total |-> acc.total + entry.Value,
                      count |-> acc.count + 1]
                ELSE acc)

\* README.md:282-306
populationResponse(populationData, startYear, endYear) ==
    LET r == filterFrom(populationData, 1, startYear, endYear,
                        [filteredCounts |-> <<>>, total |-> 0, count |-> 0])
    IN  [Mean   |-> IF r.count > 0 THEN GoDiv(r.total, r.count) ELSE 0,
         Values |-> r.filteredCounts]

\* README.md:220-224: the name, or the wrapped error
FetchPopulationDataName(reply, iso2) ==
    IF FetchCountryName(reply, iso2).failed
    THEN Err("failed to get country name: " \o FetchCountryName(reply, iso2).msg)
    ELSE FetchCountryName(reply, iso2)

\* README.md:242-306: from the population reply to the response
FetchPopulationDataCounts(reply, countryName, startYear, endYear) ==
    IF reply.fail
    THEN Err("failed to send request: " \o TransportErr("Post", PopulationURL))
    ELSE IF reply.status # StatusOK
    THEN Err("population API returned status " \o Itoa(reply.status))
    ELSE IF reply.body.t # "population"
    THEN Err("failed to decode Population API response: invalid character")
    ELSE IF reply.body.error
    THEN Err("population API returned an error: " \o reply.body.msg)
    ELSE IF ~reply.body.hasCounts
    THEN Err("no population data found for country: " \o countryName)
    ELSE Ok(populationResponse(reply.body.counts, startYear, endYear))

(***************************************************************************)
(* handlers.checkAPIHealth                                                 *)
(***************************************************************************)
CountriesNowProbeURL == "http://129.241.150.113:3500/api/v0.1/countries"
RestCountriesProbeURL == "http://129.241.150.113:8080/v3.1/all"

\* checkAPIHealth without lines 57-60: any reply that arrives counts as healthy
checkAPIHealthAnyStatus(reply) ==
    IF reply.fail THEN "FAILED" ELSE "200"

checkAPIHealth(reply) ==
    IF reply.fail THEN "FAILED"
    ELSE IF reply.status # StatusOK THEN "ERROR " \o StatusText(reply.status)
    ELSE "200"

(***************************************************************************)
(* handlers: request validation                                            *)
(***************************************************************************)
InfoPrefix == "/countryinfo/v1/info/"
PopulationPrefix == "/countryinfo/v1/population/"

\* part_000:34-47: the code of an info request, or the 400 it is answered with
infoCountryCode(urlPath) ==
    LET parts == Split(urlPath, "/")
    IN  IF Len(parts) < 5
        THEN Err("missing country code. Example: /countryinfo/v1/info/no")
        ELSE IF ~MatchISO2(ToUpper(parts[5]))
        THEN Err("invalid country code. Use a valid ISO2 format (e.g., 'NO', 'US')")
        ELSE Ok(ToUpper(parts[5]))

\* part_000:50-58: the city limit
infoLimit(queryLimit) ==
    IF queryLimit = "" THEN Ok(DefaultLimit)
    ELSE IF Atoi(queryLimit).err \/ Atoi(queryLimit).v <= 0
    THEN Err("invalid 'limit' parameter. Must be a positive integer.")
    ELSE Ok(Atoi(queryLimit).v)

\* fetch_country.go:250-261: the code of a population request
populationCountryCode(urlPath) ==
    LET parts == Split(TrimPrefix(urlPath, PopulationPrefix), "/")
    IN  IF Len(parts) < 1 \/ parts[1] = ""
        THEN Err("Missing country code. Example: /countryinfo/v1/population/NO")
        ELSE IF ~MatchISO2(ToUpper(parts[1]))
        THEN Err("Invalid country code. Use a valid ISO2 format (e.g., 'NO', 'US')")
        ELSE Ok(ToUpper(parts[1]))

\* yearRange with the bounds joined by && at line 280
yearRangeBothOut(limitParam, currentYear) ==
    IF limitParam = "" THEN Ok([startYear |-> 0, endYear |-> 0])
    ELSE LET years == Split(limitParam, "-")
         IN  IF Len(years) # 2
             THEN Err("Invalid 'limit' format. Use 'startYear-endYear'.")
             ELSE IF Atoi(years[1]).err \/ Atoi(years[2]).err
             THEN Err("Invalid 'limit' format. Use 'startYear-endYear' with numeric values (e.g., '2000-2020').")
             ELSE IF Atoi(years[1]).v < MinYear /\ Atoi(years[2]).v > currentYear
             THEN Err("Year range out of bounds. Use years between 1900 and "
                      \o Itoa(currentYear) \o ".")
             ELSE Ok([startYear |-> Atoi(years[1]).v, endYear |-> Atoi(years[2]).v])

\* fetch_country.go:264-288: the year range
yearRange(limitParam, currentYear) ==
    IF limitParam = "" THEN Ok([startYear |-> 0, endYear |-> 0])
    ELSE LET years == Split(limitParam, "-")
         IN  IF Len(years) # 2
             THEN Err("Invalid 'limit' format. Use 'startYear-endYear'.")
             ELSE IF Atoi(years[1]).err \/ Atoi(years[2]).err
             THEN Err("Invalid 'limit' format. Use 'startYear-endYear' with numeric values (e.g., '2000-2020').")
             ELSE IF Atoi(years[1]).v < MinYear \/ Atoi(years[2]).v > currentYear
             THEN Err("Year range out of bounds. Use years between 1900 and "
                      \o Itoa(currentYear) \o ".")
             ELSE Ok([startYear |-> Atoi(years[1]).v, endYear |-> Atoi(years[2]).v])

(***************************************************************************)
(* Inputs: request paths and query parameters, upstream replies            *)
(***************************************************************************)
PathCodes == {"no", "Se", "no/extra", "norway", "N", "NOR", "12", "n1", ""}

InfoLimits == {"", "1", "3", "+2", "0", "-1", "abc", "2x"}

YearLimits ==
    {"", "2010-2015", "+2010-2015", "2015-2015", "2020-2010", "2016-2015", "1900-0",
     "2010-" \o Itoa(CurrentYear), "2010-" \o Itoa(CurrentYear + 1),
     "1899-2015", "0-0", "abc-2015", "2010-x", "2010-", "-2015", "2010",
     "2010-2012-2015", "-"}

Norway ==
    [name       |-> JObj([common |-> JStr("Norway"),
                          official |-> JStr("Kingdom of Norway")]),
     region     |-> JStr("Europe"),
     borders    |-> JArr(<<JStr("FIN"), JStr("SWE"), JStr("RUS")>>),
     languages  |-> JObj([nno |-> JStr("Norwegian Nynorsk"), smi |-> JStr("Sami")]),
     flags      |-> JObj([png |-> JStr("no.png"), svg |-> JStr("no.svg")]),
     capital    |-> JArr(<<JStr("Oslo")>>),
     population |-> JNum(5379475)]

Sweden == With(With(Norway, "name", JObj([common |-> JStr("Sweden")])),
               "capital", JArr(<<JStr("Stockholm")>>))

\* what an upstream may send in place of a well-formed member
NameVariants ==
    {JNull, JStr("Norge"), JNum(47), JObj(<<>>), JObj([common |-> JNum(47)]),
     JObj([common |-> JStr("")]), JObj([common |-> JNull]),
     JObj([official |-> JStr("Kingdom of Norway")]),
     JObj([name |-> JStr("Inner"), common |-> JStr("Norway")])}

FieldVariants ==
    [region     |-> {JNull, JNum(150)},
     borders    |-> {JNull, JStr("FIN"), JArr(<<>>),
                     JArr(<<JStr("SWE"), JNum(1), JNull, JStr("FIN")>>)},
     languages  |-> {JNull, JArr(<<JStr("Sami")>>), JObj(<<>>),
                     JObj([nno |-> JStr("Norwegian Nynorsk"), x |-> JNum(1)])},
     flags      |-> {JNull, JStr("flag.txt"), JObj([png |-> JStr("no.png")]),
                     JObj([svg |-> JNum(1)]), JObj([svg |-> JNull]),
                     JObj([flags |-> JStr("inner.svg"), svg |-> JStr("no.svg")])},
     capital    |-> {JNull, JStr("Oslo"), JArr(<<>>), JArr(<<JNum(1), JStr("Oslo")>>),
                     JArr(<<JStr("Oslo"), JStr("Bergen")>>)},
     population |-> {JNull, JStr("many")}]

CountryRecords ==
    {Norway, Sweden, Without(Norway, "name"),
     With(Norway, "common", JStr("TopLevel")),
     With(Without(Norway, "name"), "common", JStr("TopLevel")),
     With(Norway, "svg", JStr("top.svg")),
     With(Without(Norway, "flags"), "svg", JStr("top.svg")),
     With(Without(Norway, "flags"), "svg", JObj([svg |-> JStr("deep.svg")]))}
    \cup {With(Norway, "name", v) : v \in NameVariants}
    \cup UNION {{Without(Norway, k)} \cup {With(Norway, k, v) : v \in FieldVariants[k]}
                : k \in DOMAIN FieldVariants}

NotFoundBody == JObj([status |-> JNum(404), message |-> JStr("Not Found")])

FailureReplies ==
    {TransportFailure, Reply(404, NotFoundBody), Reply(500, NoJSON), Reply(StatusOK, NoJSON)}

\* replies of the metadata upstream to GET /alpha/{code}
MetaReplies ==
    FailureReplies
    \cup {Reply(StatusOK, b) : b \in {JNull, JArr(<<>>), JObj(<<>>), JArr(<<JNull>>),
                                      JArr(<<JStr("Norway")>>),
                                      JArr(<<JObj(Sweden), JObj(Norway)>>)}}
    \cup {Reply(StatusOK, JArr(<<JObj(c)>>)) : c \in CountryRecords}

\* the typed decode of FetchCountryName reads name.common alone
NameReplies ==
    FailureReplies
    \cup {Reply(StatusOK, b) : b \in {JNull, JArr(<<>>), JObj(<<>>), JArr(<<JNull>>),
                                      JArr(<<JStr("Norway")>>),
                                      JArr(<<JObj(Sweden), JObj(Norway)>>)}}
    \cup {Reply(StatusOK, JArr(<<JObj(c)>>)) :
            c \in {Norway, Without(Norway, "name")}
                  \cup {With(Norway, "name", v) : v \in NameVariants}}

CityList(n) == [i \in 1..n |-> "City" \o Itoa(i)]

CitiesReplies ==
    FailureReplies
    \cup {Reply(StatusOK, CitiesBody(TRUE, <<>>)), Reply(StatusOK, CitiesBody(TRUE, CityList(2)))}
    \cup {Reply(StatusOK, CitiesBody(FALSE, CityList(n))) : n \in 0..MaxCities}

PopRecords ==
    {[Year |-> 2009, Value |-> 7], [Year |-> 2010, Value |-> 2],
     [Year |-> 2012, Value |-> -3], [Year |-> 2015, Value |-> 2],
     [Year |-> 2016, Value |-> 7]}

Histories == UNION {[1..n -> PopRecords] : n \in 0..MaxHist}

PopReplies ==
    FailureReplies
    \cup {Reply(StatusOK, PopBody(TRUE, m, FALSE, <<>>)) :
            m \in {"country not found", "bad request body"}}
    \cup {Reply(StatusOK, PopBody(FALSE, "", FALSE, <<>>))}
    \cup {Reply(StatusOK, PopBody(FALSE, "retrieved", TRUE, h)) : h \in Histories}

ProbeReplies ==
    {TransportFailure, Reply(StatusOK, NoJSON), Reply(404, NoJSON),
     Reply(500, NoJSON), Reply(503, NoJSON), Reply(599, NoJSON)}

(***************************************************************************)
(* State                                                                   *)
(***************************************************************************)
VARIABLES
    pc,             \* "idle", the upstream call a handler waits in, or "done"
    endpoint,       \* "none", "info", "population" or "status"
    urlPath,        \* r.URL.Path
    limitParam,     \* r.URL.Query().Get("limit")
    countryCode,    \* the handler's countryCode
    limit,          \* CountryInfoHandler's limit
    startYear,      \* PopulationHandler's startYear
    endYear,        \* PopulationHandler's endYear
    fields,         \* what the fetch function holds after its first call
    uptime,         \* StatusHandler's uptime
    calls,          \* the upstream calls of this request, in order
    replies,        \* the replies to them, in order
    resp,           \* the response written to the client
    startTime,      \* the package variable startTime
    now,            \* the wall clock, in seconds
    parked          \* the handler goroutines that are not running, each
                    \* between two of its steps

vars == <<pc, endpoint, urlPath, limitParam, countryCode, limit, startYear,
          endYear, fields, uptime, calls, replies, resp, startTime, now, parked>>

request == <<endpoint, urlPath, limitParam>>
locals == <<countryCode, limit, startYear, endYear, fields, uptime>>
clock == <<startTime, now>>

Call(method, url, payload) == [method |-> method, url |-> url, payload |-> payload]

NoResponse == [status |-> 0, text |-> "", data |-> <<>>]
\* http.Error(w, text, status)
HttpError(text, status) == [status |-> status, text |-> text, data |-> <<>>]
\* json.NewEncoder(w).Encode(data) with no WriteHeader before it: status 200
Encoded(data) == [status |-> StatusOK, text |-> "", data |-> data]

\* a handler goroutine that has not read its request yet
Fresh ==
    [pc |-> "idle", endpoint |-> "none", urlPath |-> "", limitParam |-> "",
     countryCode |-> "", limit |-> 0, startYear |-> 0, endYear |-> 0,
     fields |-> <<>>, uptime |-> 0, calls |-> <<>>, replies |-> <<>>,
     resp |-> NoResponse]

\* the handler goroutine that is running
Running ==
    [pc |-> pc, endpoint |-> endpoint, urlPath |-> urlPath, limitParam |-> limitParam,
     countryCode |-> countryCode, limit |-> limit, startYear |-> startYear,
     endYear |-> endYear, fields |-> fields, uptime |-> uptime, calls |-> calls,
     replies |-> replies, resp |-> resp]

Init ==
    /\ pc = "idle"
    /\ endpoint = "none"
    /\ urlPath = ""
    /\ limitParam = ""
    /\ countryCode = ""
    /\ limit = 0
    /\ startYear = 0
    /\ endYear = 0
    /\ fields = <<>>
    /\ uptime = 0
    /\ calls = <<>>
    /\ replies = <<>>
    /\ resp = NoResponse
    /\ startTime = 0
    /\ now = 0
    /\ parked = [i \in 1..MaxParked |-> Fresh]

Respond(r) ==
    /\ pc' = "done"
    /\ resp' = r

(***************************************************************************)
(* handlers.CountryInfoHandler                                             *)
(***************************************************************************)
\* part_000:67-74
infoError(msg) ==
    HttpError(IF errorStatus(msg) = StatusNotFound
              THEN "country not found in the database."
              ELSE IF errorStatus(msg) = StatusBadGateway
              THEN "failed to retrieve data from the external API."
              ELSE "internal server error while fetching data.",
              errorStatus(msg))

\* part_000:32-63 and fetch_country.go:26-29: validation, up to the metadata call
CountryInfoHandler(path, queryLimit) ==
    /\ pc = "idle"
    /\ endpoint' = "info"
    /\ urlPath' = path
    /\ limitParam' = queryLimit
    /\ UNCHANGED <<startYear, endYear, fields, uptime, replies, clock, parked>>
    /\ IF infoCountryCode(path).failed
       THEN /\ Respond(HttpError(infoCountryCode(path).msg, StatusBadRequest))
            /\ UNCHANGED <<countryCode, limit, calls>>
       ELSE IF infoLimit(queryLimit).failed
       THEN /\ Respond(HttpError(infoLimit(queryLimit).msg, StatusBadRequest))
            /\ countryCode' = infoCountryCode(path).v
            /\ UNCHANGED <<limit, calls>>
       ELSE /\ countryCode' = infoCountryCode(path).v
            /\ limit' = infoLimit(queryLimit).v
            /\ calls' = Append(calls, Call("GET", AlphaURL(infoCountryCode(path).v), ""))
            /\ pc' = "metadata"
            /\ UNCHANGED resp

\* fetch_country.go:29-101 and part_000:64-76: the metadata reply, up to the
\* cities call
CountryInfoMetadata(reply) ==
    /\ pc = "metadata"
    /\ endpoint = "info"
    /\ replies' = Append(replies, reply)
    /\ UNCHANGED <<request, countryCode, limit, startYear, endYear, uptime, clock, parked>>
    /\ LET r == FetchCountryInfoMeta(reply, countryCode)
       IN  IF r.failed
           THEN /\ Respond(infoError(r.msg))
                /\ UNCHANGED <<fields, calls>>
           ELSE /\ fields' = r.v
                /\ calls' = Append(calls, Call("POST", CitiesURL, CitiesPayload(r.v.Name)))
                /\ pc' = "cities"
                /\ UNCHANGED resp

\* CountryInfoCities with the cities error returned like the metadata error
CountryInfoCitiesPropagating(reply) ==
    /\ pc = "cities"
    /\ replies' = Append(replies, reply)
    /\ IF FetchCities(reply, fields.Name, limit).failed
       THEN Respond(infoError(FetchCities(reply, fields.Name, limit).msg))
       ELSE Respond(Encoded(FetchCountryInfoCities(fields, reply, limit)))
    /\ UNCHANGED <<request, locals, calls, clock, parked>>

\* fetch_country.go:101-119 and part_000:78-82: the cities reply, up to the response
CountryInfoCities(reply) ==
    /\ pc = "cities"
    /\ replies' = Append(replies, reply)
    /\ Respond(Encoded(FetchCountryInfoCities(fields, reply, limit)))
    /\ UNCHANGED <<request, locals, calls, clock, parked>>

(***************************************************************************)
(* handlers.PopulationHandler                                              *)
(***************************************************************************)
\* fetch_country.go:298-305
populationError(msg) ==
    HttpError(IF errorStatus(msg) = StatusNotFound
              THEN "Population data not found for the given country or year range."
              ELSE IF errorStatus(msg) = StatusBadGateway
              THEN "Failed to retrieve data from the external API."
              ELSE "Internal server error while fetching population data.",
              errorStatus(msg))

\* PopulationHandler with the metadata call issued before README.md:216 compares
\* the two years
PopulationHandlerCallFirst(path, query) ==
    /\ pc = "idle"
    /\ endpoint' = "population"
    /\ urlPath' = path
    /\ limitParam' = query
    /\ UNCHANGED <<limit, fields, uptime, replies, clock, parked>>
    /\ IF populationCountryCode(path).failed
       THEN /\ Respond(HttpError(populationCountryCode(path).msg, StatusBadRequest))
            /\ UNCHANGED <<countryCode, startYear, endYear, calls>>
       ELSE IF yearRange(query, CurrentYear).failed
       THEN /\ Respond(HttpError(yearRange(query, CurrentYear).msg, StatusBadRequest))
            /\ countryCode' = populationCountryCode(path).v
            /\ UNCHANGED <<startYear, endYear, calls>>
       ELSE /\ countryCode' = populationCountryCode(path).v
            /\ startYear' = yearRange(query, CurrentYear).v.startYear
            /\ endYear' = yearRange(query, CurrentYear).v.endYear
            /\ calls' = Append(calls,
                          Call("GET", AlphaURL(populationCountryCode(path).v), ""))
            /\ pc' = "metadata"
            /\ UNCHANGED resp

\* fetch_country.go:248-294 and README.md:214-221: validation, up to the
\* metadata call
PopulationHandler(path, query) ==
    /\ pc = "idle"
    /\ endpoint' = "population"
    /\ urlPath' = path
    /\ limitParam' = query
    /\ UNCHANGED <<limit, fields, uptime, replies, clock, parked>>
    /\ IF populationCountryCode(path).failed
       THEN /\ Respond(HttpError(populationCountryCode(path).msg, StatusBadRequest))
            /\ UNCHANGED <<countryCode, startYear, endYear, calls>>
       ELSE IF yearRange(query, CurrentYear).failed
       THEN /\ Respond(HttpError(yearRange(query, CurrentYear).msg, StatusBadRequest))
            /\ countryCode' = populationCountryCode(path).v
            /\ UNCHANGED <<startYear, endYear, calls>>
       ELSE LET years == yearRange(query, CurrentYear).v
            IN  /\ countryCode' = populationCountryCode(path).v
                /\ startYear' = years.startYear
                /\ endYear' = years.endYear
                /\ IF invalidYearRange(years.startYear, years.endYear)
                   THEN /\ Respond(populationError(
                              yearRangeErr(years.startYear, years.endYear).msg))
                        /\ UNCHANGED calls
                   ELSE /\ calls' = Append(calls,
                              Call("GET", AlphaURL(populationCountryCode(path).v), ""))
                        /\ pc' = "metadata"
                        /\ UNCHANGED resp

\* README.md:173-242: the metadata reply, up to the population call
PopulationName(reply) ==
    /\ pc = "metadata"
    /\ endpoint = "population"
    /\ replies' = Append(replies, reply)
    /\ UNCHANGED <<request, countryCode, limit, startYear, endYear, uptime, clock, parked>>
    /\ LET r == FetchPopulationDataName(reply, countryCode)
       IN  IF r.failed
           THEN /\ Respond(populationError(r.msg))
                /\ UNCHANGED <<fields, calls>>
           ELSE /\ fields' = [Name |-> r.v]
                /\ calls' = Append(calls, Call("POST", PopulationURL,
                                               "{\"country\":\"" \o r.v \o "\"}"))
                /\ pc' = "population"
                /\ UNCHANGED resp

\* README.md:242-306 and fetch_country.go:295-311: the population reply, up to
\* the response
PopulationCounts(reply) ==
    /\ pc = "population"
    /\ replies' = Append(replies, reply)
    /\ UNCHANGED <<request, locals, calls, clock, parked>>
    /\ LET r == FetchPopulationDataCounts(reply, fields.Name, startYear, endYear)
       IN  IF r.failed THEN Respond(populationError(r.msg))
           ELSE Respond(Encoded(r.v))

(***************************************************************************)
(* handlers.StatusHandler                                                  *)
(***************************************************************************)
\* StatusHandler with the start time set anew by every status request
StatusHandlerRestarting ==
    /\ pc = "idle"
    /\ endpoint' = "status"
    /\ urlPath' = "/countryinfo/v1/status/"
    /\ uptime' = now - startTime
    /\ startTime' = now
    /\ calls' = Append(calls, Call("GET", CountriesNowProbeURL, ""))
    /\ pc' = "countriesNow"
    /\ UNCHANGED <<limitParam, countryCode, limit, startYear, endYear, fields,
                   replies, resp, now, parked>>

\* part_001:66-70: the uptime, up to the first probe
StatusHandler ==
    /\ pc = "idle"
    /\ endpoint' = "status"
    /\ urlPath' = "/countryinfo/v1/status/"
    /\ uptime' = now - startTime
    /\ calls' = Append(calls, Call("GET", CountriesNowProbeURL, ""))
    /\ pc' = "countriesNow"
    /\ UNCHANGED <<limitParam, countryCode, limit, startYear, endYear, fields,
                   replies, resp, clock, parked>>

\* part_001:70-71: the first probe's reply, up to the second probe
StatusCountriesNow(reply) ==
    /\ pc = "countriesNow"
    /\ replies' = Append(replies, reply)
    /\ fields' = [countriesNowStatus |-> checkAPIHealth(reply)]
    /\ calls' = Append(calls, Call("GET", RestCountriesProbeURL, ""))
    /\ pc' = "restCountries"
    /\ UNCHANGED <<request, countryCode, limit, startYear, endYear, uptime, resp, clock, parked>>

\* part_001:71-83: the second probe's reply, up to the response
StatusRestCountries(reply) ==
    /\ pc = "restCountries"
    /\ replies' = Append(replies, reply)
    /\ Respond(Encoded([CountriesNowAPI  |-> fields.countriesNowStatus,
                        RestCountriesAPI |-> checkAPIHealth(reply),
                        Version          |-> "v1",
                        Uptime           |-> uptime]))
    /\ UNCHANGED <<request, locals, calls, clock, parked>>

(***************************************************************************)
(* The server loop and the clock                                           *)
(***************************************************************************)
\* the handler returns; its request, locals and response writer are dropped
Return ==
    /\ pc = "done"
    /\ pc' = "idle"
    /\ endpoint' = "none"
    /\ urlPath' = ""
    /\ limitParam' = ""
    /\ countryCode' = ""
    /\ limit' = 0
    /\ startYear' = 0
    /\ endYear' = 0
    /\ fields' = <<>>
    /\ uptime' = 0
    /\ calls' = <<>>
    /\ replies' = <<>>
    /\ resp' = NoResponse
    /\ UNCHANGED <<clock, parked>>

\* time passes between requests
Tick ==
    /\ pc = "idle"
    /\ now < MaxTime
    /\ now' = now + 1
    /\ UNCHANGED <<pc, request, locals, calls, replies, resp, startTime, parked>>

Next ==
    \/ \E c \in PathCodes, q \in InfoLimits : CountryInfoHandler(InfoPrefix \o c, q)
    \/ \E reply \in MetaReplies : CountryInfoMetadata(reply)
    \/ \E reply \in CitiesReplies : CountryInfoCities(reply)
    \/ \E c \in PathCodes, q \in YearLimits : PopulationHandler(PopulationPrefix \o c, q)
    \/ \E reply \in NameReplies : PopulationName(reply)
    \/ \E reply \in PopReplies : PopulationCounts(reply)
    \/ StatusHandler
    \/ \E reply \in ProbeReplies : StatusCountriesNow(reply)
    \/ \E reply \in ProbeReplies : StatusRestCountries(reply)
    \/ Return
    \/ Tick

Spec == Init /\ [][Next]_vars

(***************************************************************************)
(* Concurrent requests: net/http runs every handler in a goroutine of its  *)
(* own; the scheduler may run any of them between two steps of another.    *)
(***************************************************************************)
\* the scheduler parks the running handler goroutine and runs parked one i
Switch(i) ==
    /\ parked' = [parked EXCEPT ![i] = Running]
    /\ pc' = parked[i].pc
    /\ endpoint' = parked[i].endpoint
    /\ urlPath' = parked[i].urlPath
    /\ limitParam' = parked[i].limitParam
    /\ countryCode' = parked[i].countryCode
    /\ limit' = parked[i].limit
    /\ startYear' = parked[i].startYear
    /\ endYear' = parked[i].endYear
    /\ fields' = parked[i].fields
    /\ uptime' = parked[i].uptime
    /\ calls' = parked[i].calls
    /\ replies' = parked[i].replies
    /\ resp' = parked[i].resp
    /\ UNCHANGED clock

ConcLimits == {"", "2010-2015"}
ConcMetaReplies == {TransportFailure, Reply(StatusOK, JArr(<<JObj(Norway)>>))}
ConcCitiesReplies == {TransportFailure, Reply(StatusOK, CitiesBody(FALSE, CityList(2)))}
ConcPopReplies ==
    {TransportFailure,
     Reply(StatusOK, PopBody(FALSE, "retrieved", TRUE,
                             <<[Year |-> 2009, Value |-> 7], [Year |-> 2010, Value |-> 2]>>))}
ConcProbeReplies == {TransportFailure, Reply(StatusOK, NoJSON)}

NextConc ==
    \/ CountryInfoHandler(InfoPrefix \o "no", "1")
    \/ \E reply \in ConcMetaReplies : CountryInfoMetadata(reply)
    \/ \E reply \in ConcCitiesReplies : CountryInfoCities(reply)
    \/ \E q \in ConcLimits : PopulationHandler(PopulationPrefix \o "no", q)
    \/ \E reply \in ConcMetaReplies : PopulationName(reply)
    \/ \E reply \in ConcPopReplies : PopulationCounts(reply)
    \/ StatusHandler
    \/ \E reply \in ConcProbeReplies : StatusCountriesNow(reply)
    \/ \E reply \in ConcProbeReplies : StatusRestCountries(reply)
    \/ Return
    \/ Tick
    \/ \E i \in 1..MaxParked : Switch(i)

SpecConc == Init /\ [][NextConc]_vars

(***************************************************************************)
(* FetchPopulationData on its own: every window it accepts, called after   *)
(* the name has been resolved.                                             *)
(***************************************************************************)
FetchYears == {0, 2010, 2012, 2015, 2016}

InitFetch ==
    /\ pc = "population"
    /\ endpoint = "population"
    /\ urlPath = PopulationPrefix \o "no"
    /\ limitParam = ""
    /\ countryCode = "NO"
    /\ limit = 0
    /\ startYear \in FetchYears
    /\ endYear \in FetchYears
    /\ ~invalidYearRange(startYear, endYear)
    /\ fields = [Name |-> "Norway"]
    /\ uptime = 0
    /\ calls = <<Call("GET", AlphaURL("NO"), ""),
                 Call("POST", PopulationURL, "{\"country\":\"Norway\"}")>>
    /\ replies = <<Reply(StatusOK, JArr(<<JObj(Norway)>>))>>
    /\ resp = NoResponse
    /\ startTime = 0
    /\ now = 0
    /\ parked = [i \in 1..MaxParked |-> Fresh]

NextFetch == \E reply \in PopReplies : PopulationCounts(reply)

SpecFetch == InitFetch /\ [][NextFetch]_vars

(***************************************************************************)
(* Properties                                                              *)
(***************************************************************************)
Done(e) == pc = "done" /\ endpoint = e

RECURSIVE SumValues(_)
SumValues(records) ==
    IF Len(records) = 0 THEN 0
    ELSE Head(records).Value + SumValues(Tail(records))

\* the population request got its history and answered with a report
PopulationReported ==
    /\ Done("population")
    /\ Len(replies) = 2
    /\ resp.status = StatusOK

UpstreamHistory == replies[2].body.counts

\* m is sum / count rounded toward zero
IsTruncatedQuotient(m, sum, count) ==
    \E r \in (1 - count)..(count - 1) :
        /\ m * count + r = sum
        /\ (r > 0 => sum > 0)
        /\ (r < 0 => sum < 0)

\* C1 as stated: with s <= e the values are exactly the records with
\* s <= year <= e, in upstream order, and mean is floor(sum / count), 0 when
\* no record is in the window.
C1_AsStated ==
    (PopulationReported /\ startYear <= endYear) =>
        LET window == SelectSeq(UpstreamHistory,
                        LAMBDA rec : startYear <= rec.Year /\ rec.Year <= endYear)
        IN  /\ resp.data.Values = window
            /\ resp.data.Mean = IF Len(window) > 0
                                THEN SumValues(window) \div Len(window) ELSE 0

\* C1 (amended): for every window FetchPopulationData accepts, the values are
\* exactly the records with (s = 0 or year >= s) and (e = 0 or year <= e), a
\* bound of 0 being no bound, in upstream order; mean is sum / count rounded
\* toward zero (the floor when the sum is not negative), and 0 when no record
\* is selected.
C1_WindowAndMean ==
    PopulationReported =>
        LET window == SelectSeq(UpstreamHistory,
                        LAMBDA rec : /\ (startYear = 0 \/ startYear <= rec.Year)
                                     /\ (endYear = 0 \/ rec.Year <= endYear))
        IN  /\ resp.data.Values = window
            /\ IF Len(window) = 0 THEN resp.data.Mean = 0
               ELSE IsTruncatedQuotient(resp.data.Mean, SumValues(window), Len(window))

\* a window that keeps some records and drops others, ending on a record's year
C1_Witness ==
    /\ PopulationReported
    /\ startYear = 2010
    /\ endYear = 2015
    /\ Len(resp.data.Values) = 2
    /\ Len(UpstreamHistory) = 3
    /\ resp.data.Values[2].Year = 2015
    /\ resp.data.Mean = 0
    /\ SumValues(resp.data.Values) = -1

\* the limit an accepted info request asks for
RequestedLimit ==
    ("" :> DefaultLimit) @@ ("1" :> 1) @@ ("3" :> 3) @@ ("+2" :> 2)

\* the cities upstream answered, with status 200, a decodable body and no
\* error flag
CitiesAnswered ==
    /\ Len(replies) = 2
    /\ ~replies[2].fail
    /\ replies[2].status = StatusOK
    /\ replies[2].body.t = "cities"
    /\ ~replies[2].body.error

\* C2: every successful info response has at most L cities, L being the
\* requested limit or 10 when none is given; when the cities upstream answers
\* without error they are its first min(L, n) cities, in its order.
C2_CitiesWithinLimit ==
    (Done("info") /\ resp.status = StatusOK) =>
        /\ limitParam \in DOMAIN RequestedLimit
        /\ Len(resp.data.Cities) <= RequestedLimit[limitParam]
        /\ CitiesAnswered =>
             LET upstream == replies[2].body.data
                 L == RequestedLimit[limitParam]
             IN  /\ Len(resp.data.Cities) = IF Len(upstream) < L THEN Len(upstream) ELSE L
                 /\ \A i \in 1..Len(resp.data.Cities) : resp.data.Cities[i] = upstream[i]

\* no limit given, eleven cities upstream, ten in the response
C2_Witness ==
    /\ Done("info")
    /\ resp.status = StatusOK
    /\ limitParam = ""
    /\ CitiesAnswered
    /\ Len(replies[2].body.data) = DefaultLimit + 1
    /\ Len(resp.data.Cities) = DefaultLimit

\* the first path segment after the route's prefix, as the client sent it
RequestCode ==
    LET prefix == IF endpoint = "info" THEN InfoPrefix ELSE PopulationPrefix
        rest == SubSeq(urlPath, Len(prefix) + 1, Len(urlPath))
        slashes == {i \in 1..Len(rest) : Char(rest, i) = "/"}
        stop == IF slashes = {} THEN Len(rest) + 1
                ELSE CHOOSE i \in slashes : \A j \in slashes : i <= j
    IN  SubSeq(rest, 1, stop - 1)

IsLetter(ch) ==
    \E k \in 1..26 : ch = Char(LowerLetters, k) \/ ch = Char(UpperLetters, k)

TwoLetters(code) ==
    Len(code) = 2 /\ IsLetter(Char(code, 1)) /\ IsLetter(Char(code, 2))

\* upper is code with each letter replaced by its capital
IsUpperOf(upper, code) ==
    /\ Len(upper) = Len(code)
    /\ \A i \in 1..Len(code) :
         \E k \in 1..26 :
            /\ Char(upper, i) = Char(UpperLetters, k)
            /\ Char(code, i) \in {Char(UpperLetters, k), Char(LowerLetters, k)}

CodeErrors ==
    {"missing country code. Example: /countryinfo/v1/info/no",
     "invalid country code. Use a valid ISO2 format (e.g., 'NO', 'US')",
     "Missing country code. Example: /countryinfo/v1/population/NO",
     "Invalid country code. Use a valid ISO2 format (e.g., 'NO', 'US')"}

\* C3: in the info and the population handler a code that is not two letters
\* is answered 400 without any upstream call; a code of two letters, in either
\* case, is never rejected for its code and the upstream is queried with its
\* uppercased form.
C3_CountryCode ==
    endpoint \in {"info", "population"} =>
        IF ~TwoLetters(RequestCode)
        THEN /\ pc = "done"
             /\ resp.status = StatusBadRequest
             /\ calls = <<>>
        ELSE /\ resp.text \notin CodeErrors
             /\ IsUpperOf(countryCode, RequestCode)
             /\ calls # <<>> =>
                  calls[1] = Call("GET", "http://129.241.150.113:8080/v3.1/alpha/"
                                         \o countryCode, "")

\* "norway" is answered 400 before any upstream call
C3_Witness ==
    /\ Done("info")
    /\ RequestCode = "norway"
    /\ resp.status = StatusBadRequest
    /\ calls = <<>>

(***************************************************************************)
(* The year range as the client wrote it, read without the handler's code  *)
(***************************************************************************)
Dashes(s) == {i \in 1..Len(s) : Char(s, i) = "-"}
TwoParts(s) == Cardinality(Dashes(s)) = 1
StartPart(s) == SubSeq(s, 1, (CHOOSE i \in Dashes(s) : TRUE) - 1)
EndPart(s) == SubSeq(s, (CHOOSE i \in Dashes(s) : TRUE) + 1, Len(s))

DigitOf ==
    ("0" :> 0) @@ ("1" :> 1) @@ ("2" :> 2) @@ ("3" :> 3) @@ ("4" :> 4)
    @@ ("5" :> 5) @@ ("6" :> 6) @@ ("7" :> 7) @@ ("8" :> 8) @@ ("9" :> 9)

RECURSIVE Pow10(_)
Pow10(k) == IF k = 0 THEN 1 ELSE 10 * Pow10(k - 1)

RECURSIVE PlaceValue(_)
PlaceValue(digits) ==
    IF Len(digits) = 0 THEN 0
    ELSE DigitOf[Char(digits, 1)] * Pow10(Len(digits) - 1)
         + PlaceValue(SubSeq(digits, 2, Len(digits)))

\* a part between dashes can carry no sign but "+"
Unsigned(part) ==
    IF Len(part) > 0 /\ Char(part, 1) = "+" THEN SubSeq(part, 2, Len(part)) ELSE part
IsInteger(part) ==
    /\ Len(Unsigned(part)) > 0
    /\ \A i \in 1..Len(Unsigned(part)) : Char(Unsigned(part), i) \in DOMAIN DigitOf
IntegerOf(part) == PlaceValue(Unsigned(part))

\* the limit is "<start>-<end>" with two integers
WellFormedRange(s) ==
    TwoParts(s) /\ IsInteger(StartPart(s)) /\ IsInteger(EndPart(s))

\* C4 as stated: a population request whose range has both parts present and
\* 1900 <= end < start <= current year is answered 400.
C4_AsStated ==
    ( /\ Done("population")
      /\ TwoLetters(RequestCode)
      /\ WellFormedRange(limitParam)
      /\ MinYear <= IntegerOf(EndPart(limitParam))
      /\ IntegerOf(EndPart(limitParam)) < IntegerOf(StartPart(limitParam))
      /\ IntegerOf(StartPart(limitParam)) <= CurrentYear )
    => resp.status = StatusBadRequest

\* the upstream was reachable and answered with a bad status or with its
\* error flag set
BadAnswer(reply) ==
    /\ ~reply.fail
    /\ \/ reply.status # StatusOK
       \/ reply.body.t = "population" /\ reply.body.error

\* C5 as stated: when a mandatory upstream call (metadata for both handlers,
\* population for the population handler) is answered with a non-200 status or
\* with the error flag set, the client receives 502.
C5_AsStated ==
    ( /\ pc = "done"
      /\ endpoint \in {"info", "population"}
      /\ \/ Len(replies) >= 1 /\ BadAnswer(replies[1])
         \/ endpoint = "population" /\ Len(replies) = 2 /\ BadAnswer(replies[2]) )
    => resp.status = StatusBadGateway

\* the metadata upstream answered 200 with an array that holds no record, or
\* whose first record has no common name or an empty one
NoCountry(reply) ==
    /\ ~reply.fail
    /\ reply.status = StatusOK
    /\ reply.body.t = "array"
    /\ \/ Len(reply.body.a) = 0
       \/ /\ reply.body.a[1].t = "object"
          /\ LET name == Get(reply.body.a[1].o, "name")
             IN  \/ name.t = "absent"
                 \/ /\ name.t = "object"
                    /\ Get(name.o, "common") \in {Absent, JStr("")}

\* the population upstream answered 200 without error flag and without a
\* history array
NoHistory(reply) ==
    /\ ~reply.fail
    /\ reply.status = StatusOK
    /\ reply.body.t = "population"
    /\ ~reply.body.error
    /\ ~reply.body.hasCounts

\* C6 as stated: no matching record, a missing or empty common name (both
\* handlers) and a missing history array (population handler) are answered 404.
C6_AsStated ==
    ( /\ pc = "done"
      /\ endpoint \in {"info", "population"}
      /\ \/ Len(replies) >= 1 /\ NoCountry(replies[1])
         \/ endpoint = "population" /\ Len(replies) = 2 /\ NoHistory(replies[2]) )
    => resp.status = StatusNotFound

\* C7: once the metadata has been fetched, a failure of the cities fetch
\* (transport error, status other than 200, undecodable body, error flag)
\* still gives a 200 whose cities are the one placeholder and whose other
\* fields are the ones taken from the metadata record.
C7_CitiesFallback ==
    (Done("info") /\ Len(replies) = 2 /\ ~CitiesAnswered) =>
        /\ resp.status = StatusOK
        /\ resp.data.Cities = <<"City data not available">>
        /\ [k \in (DOMAIN resp.data) \ {"Cities"} |-> resp.data[k]] = fields
        /\ fields = FetchCountryInfoMeta(replies[1], countryCode).v

\* the cities upstream cannot be reached, the country is reported all the same
C7_Witness ==
    /\ Done("info")
    /\ Len(replies) = 2
    /\ replies[2].fail
    /\ resp.status = StatusOK
    /\ resp.data.Name = "Norway"
    /\ resp.data.Capital = "Oslo"
    /\ resp.data.Cities = <<"City data not available">>

ReasonPhrase ==
    (404 :> "Not Found") @@ (500 :> "Internal Server Error")
    @@ (503 :> "Service Unavailable") @@ (599 :> "")

\* the status text the probe of an upstream that answered with reply must give
IsProbeStatus(text, reply) ==
    \/ reply.fail /\ text = "FAILED"
    \/ ~reply.fail /\ reply.status = 200 /\ text = "200"
    \/ ~reply.fail /\ reply.status # 200 /\ text = "ERROR " \o ReasonPhrase[reply.status]

C9_YearRange ==
    (endpoint = "population" /\ TwoLetters(RequestCode)) =>
        /\ ( /\ limitParam # ""
             /\ \/ ~WellFormedRange(limitParam)
                \/ IntegerOf(StartPart(limitParam)) < 1900
                \/ IntegerOf(EndPart(limitParam)) > CurrentYear )
           => (pc = "done" /\ resp.status = StatusBadRequest /\ calls = <<>>)
        /\ limitParam = "" =>
             /\ startYear = 0
             /\ endYear = 0
             /\ resp.status # StatusBadRequest
             /\ PopulationReported => resp.data.Values = UpstreamHistory

\* a range that starts before 1900 is answered 400
C9_Witness ==
    /\ Done("population")
    /\ limitParam = "1899-2015"
    /\ resp.status = StatusBadRequest
    /\ calls = <<>>

\* the string under key of a record, when there is one
HasString(record, key) == Get(record, key).t = "string"

\* the string at outer.inner of a record, when there is one
HasNestedString(record, outer, inner) ==
    Get(record, outer).t = "object" /\ HasString(Get(record, outer).o, inner)

\* C10 as stated: name is the string at name.common; flag is the string at
\* flags.svg, else ""; continent is the string at region, else "Unknown";
\* capital is the first element of capital when that is a string, else "N/A";
\* borders are the strings of borders in order and languages the string
\* members of languages, empty when absent or of another type; and only the
\* name can make the request fail.
C10_AsStated ==
    ( /\ endpoint = "info"
      /\ Len(replies) >= 1
      /\ ~replies[1].fail
      /\ replies[1].status = StatusOK
      /\ replies[1].body.t = "array"
      /\ Len(replies[1].body.a) > 0
      /\ replies[1].body.a[1].t = "object" )
    => LET record == replies[1].body.a[1].o
           fetched == Len(calls) = 2
       IN  /\ HasNestedString(record, "name", "common") => fetched
           /\ fetched =>
                /\ HasNestedString(record, "name", "common")
                /\ fields.Name = record["name"].o["common"].s
                /\ fields.Flag = IF HasNestedString(record, "flags", "svg")
                                 THEN record["flags"].o["svg"].s ELSE ""
                /\ fields.Continent = IF HasString(record, "region")
                                      THEN record["region"].s ELSE "Unknown"
                /\ fields.Capital =
                     IF /\ Get(record, "capital").t = "array"
                        /\ Len(record["capital"].a) > 0
                        /\ record["capital"].a[1].t = "string"
                     THEN record["capital"].a[1].s ELSE "N/A"
                /\ LET strings == IF Get(record, "borders").t = "array"
                                  THEN SelectSeq(record["borders"].a,
                                                 LAMBDA item : item.t = "string")
                                  ELSE <<>>
                   IN  fields.Borders = [i \in 1..Len(strings) |-> strings[i].s]
                /\ LET langs == IF Get(record, "languages").t = "object"
                                THEN record["languages"].o ELSE <<>>
                   IN  /\ DOMAIN fields.Languages = {k \in DOMAIN langs : langs[k].t = "string"}
                       /\ \A k \in DOMAIN fields.Languages : fields.Languages[k] = langs[k].s

(***************************************************************************)
(* The order of the upstream calls of a request                            *)
(***************************************************************************)
\* every validator the handler runs has accepted the request in flight
Validated ==
    /\ endpoint = "info" =>
         /\ TwoLetters(RequestCode)
         /\ ~infoCountryCode(urlPath).failed
         /\ ~infoLimit(limitParam).failed
    /\ endpoint = "population" =>
         /\ TwoLetters(RequestCode)
         /\ ~populationCountryCode(urlPath).failed
         /\ ~yearRange(limitParam, CurrentYear).failed
         /\ ~invalidYearRange(yearRange(limitParam, CurrentYear).v.startYear,
                              yearRange(limitParam, CurrentYear).v.endYear)
         /\ (WellFormedRange(limitParam) /\ IntegerOf(EndPart(limitParam)) # 0)
              => IntegerOf(StartPart(limitParam)) <= IntegerOf(EndPart(limitParam))

\* the metadata upstream answered 200 with a list that is not empty
MetadataSucceeded ==
    /\ Len(replies) >= 1
    /\ ~replies[1].fail
    /\ replies[1].status = StatusOK
    /\ replies[1].body.t = "array"
    /\ Len(replies[1].body.a) >= 1

\* the name the fetch function took from the metadata reply
ReturnedName ==
    IF endpoint = "info" THEN FetchCountryInfoMeta(replies[1], countryCode).v.Name
    ELSE FetchCountryName(replies[1], countryCode).v

Urls == {calls[i].url : i \in 1..Len(calls)}

\* C11: within a request no upstream call is issued before the code, the city
\* limit and the year range (start > end included) have passed; the cities call
\* and the population call are issued only after the metadata call of the
\* request has succeeded and carry the name it returned; every upstream
\* endpoint is called at most once, so a call that failed is not repeated and
\* nothing is called after the response.
C11_CallOrder ==
    /\ Len(calls) <= 2
    /\ Cardinality(Urls) = Len(calls)
    /\ Len(replies) <= Len(calls)
    /\ pc \notin {"idle", "done"} => Len(calls) = Len(replies) + 1
    /\ endpoint \in {"info", "population"} =>
         /\ calls # <<>> =>
              /\ Validated
              /\ calls[1] = Call("GET", AlphaURL(countryCode), "")
         /\ Len(calls) = 2 =>
              /\ MetadataSucceeded
              /\ calls[2].method = "POST"
              /\ calls[2].url = IF endpoint = "info" THEN CitiesURL ELSE PopulationURL
              /\ Contains(calls[2].payload, "\"" \o ReturnedName \o "\"")
              /\ fields.Name = ReturnedName
         /\ (Len(replies) >= 1 /\ ~MetadataSucceeded) => (pc = "done" /\ Len(calls) = 1)
         /\ Len(replies) = 2 => pc = "done"

\* a population request whose population call failed after the metadata call
\* had returned the name: two calls, the second keyed by the name, no third
C11_Witness ==
    /\ Done("population")
    /\ limitParam = "2010-2015"
    /\ Len(calls) = 2
    /\ Len(replies) = 2
    /\ replies[2].fail
    /\ calls[2] = Call("POST", PopulationURL, "{\"country\":\"Norway\"}")

\* C12 as stated: a population request that carries a limit "S-E" and is
\* answered 200 returns only records with S <= year <= E, an end part of 0
\* included.
C12_AsStated ==
    ( /\ PopulationReported
      /\ WellFormedRange(limitParam) )
    => \A i \in 1..Len(resp.data.Values) :
          /\ IntegerOf(StartPart(limitParam)) <= resp.data.Values[i].Year
          /\ resp.data.Values[i].Year <= IntegerOf(EndPart(limitParam))

(***************************************************************************)
(* Requests handled concurrently                                           *)
(***************************************************************************)
\* the handler goroutines: 0 is the running one
Goroutine(i) == IF i = 0 THEN Running ELSE parked[i]

\* two handler goroutines were given the same request and the same replies
SameRequest(g, h) ==
    /\ g.endpoint = h.endpoint
    /\ g.urlPath = h.urlPath
    /\ g.limitParam = h.limitParam
    /\ g.replies = h.replies

\* the start time is the one set at initialization, and no status request
\* holds an uptime below 0 or above what a request reading the clock now
\* would get
UptimeInOrder ==
    /\ startTime = 0
    /\ \A i \in 0..MaxParked :
         Goroutine(i).endpoint = "status" =>
            /\ 0 <= Goroutine(i).uptime
            /\ Goroutine(i).uptime <= now - startTime

\* C13 as stated: under any interleaving of info, population and status
\* requests no handler modifies the start time, the uptime of a status request
\* is not negative and not below that of a request that read the clock earlier,
\* and the response of a request depends only on its parameters and on the
\* upstream replies it received.
C13_AsStated ==
    /\ UptimeInOrder
    /\ \A i, j \in 0..MaxParked :
         SameRequest(Goroutine(i), Goroutine(j)) =>
            Goroutine(i).resp = Goroutine(j).resp

\* C13 (amended): under any interleaving of info, population and status
\* requests no handler modifies the start time, the uptime of a status request
\* is not negative and not below that of a request that read the clock earlier,
\* and where a request stands, the calls it issued and its response depend only
\* on its parameters, on the upstream replies it received and, for a status
\* request, on the uptime it computed from its own reading of the clock.
C13_Interleaving ==
    /\ UptimeInOrder
    /\ \A i, j \in 0..MaxParked :
         ( /\ SameRequest(Goroutine(i), Goroutine(j))
           /\ Goroutine(i).uptime = Goroutine(j).uptime )
         => /\ Goroutine(i).pc = Goroutine(j).pc
            /\ Goroutine(i).calls = Goroutine(j).calls
            /\ Goroutine(i).resp = Goroutine(j).resp

\* a status request that read the clock at 1 has answered while one that read
\* it at 0 and got the same first reply still waits for its second probe
C13_Witness ==
    /\ Done("status")
    /\ resp.status = StatusOK
    /\ resp.data.Uptime = 1
    /\ parked[1].endpoint = "status"
    /\ parked[1].pc = "restCountries"
    /\ parked[1].uptime = 0
    /\ parked[1].replies[1] = replies[1]

=============================================================================
